---- MODULE Spec2Model ----
(***************************************************************************)
(* Story-Speeks backend: the job registry (services/job_manager.py), the   *)
(* submit endpoint (api/v1/endpoints.py) and the conversion pipeline       *)
(* (core/tasks.py), as state machines.                                     *)
(*                                                                         *)
(* Spec          one run of convert_pdf_to_audio on the asyncio event      *)
(*               loop: the orchestrator and its chunk workers, each        *)
(*               action one stretch of code between two awaits.            *)
(* SpecJobs      the runs of two jobs and the status queries on one event  *)
(*               loop, each run seen stage by stage and worker by worker,  *)
(*               its retries and the semaphore left to Spec.               *)
(* SpecRegistry  JobManager's methods and upload_pdf called from           *)
(*               concurrent threads, one action per statement, so that     *)
(*               the lock is what orders the field writes.                 *)
(* SpecFair      Spec's run under weak fairness of its own steps, chunk    *)
(*               failures drawn for a bounded number of workers.           *)
(* SpecSingleton JobManager() and the methods called from concurrent       *)
(*               threads, __new__ one action per statement.                *)
(***************************************************************************)
EXTENDS Integers, Sequences, FiniteSets, TLC

\* ------------------------------------------------------------ bounds
\* Most chunks chunk_text may return in a modelled run.
MaxChunks == 6

\* Most os.remove calls that raise OSError in one finally block.
MaxRemoveErrors == 1

\* Most chunks of a run where two runs share the loop.
MaxJobChunks == 1

\* Most chunks of a run whose synthesis attempts may fail where termination
\* is checked.
MaxFaulty == 4

\* ------------------------------------------------ program constants
\* asyncio.Semaphore(5)
SemaphoreSize == 5
\* retries = 3
Retries == 3
\* errors[:5]
MaxErrorsShown == 5

\* ------------------------------------------------------------ values
\* JobStatusEnum
PENDING == "pending"
PROCESSING == "processing"
COMPLETE == "complete"
FAILED == "failed"
JobStatusEnum == {PENDING, PROCESSING, COMPLETE, FAILED}

\* Python's None (a missing dict key read with .get, an omitted argument).
None == "<None>"

\* The job ids of the model: RunJob is the id the pipeline run is given,
\* OtherJob another job of the registry.
RunJob == "j1"
OtherJob == "j2"
JobIds == {RunJob, OtherJob}

\* A voice a client may select.
Voices == {"en-US-AriaNeural"}

\* A message: the f-string's template and the values formatted into it.
Msg(kind, k, n, errs) == [kind |-> kind, k |-> k, n |-> n, errs |-> errs]
Text(kind) == Msg(kind, 0, 0, <<>>)
NoneMsg == Text(None)

\* Faulty variant: `if message is not False`, true of every message passed.
AlwaysTruthyMsg(m) == TRUE

\* Python truthiness of an Optional[str] argument: None and "" are falsy.
TruthyMsg(m) == m.kind \notin {None, ""}
TruthyStr(s) == s \notin {None, ""}

\* File paths: UPLOAD_DIR / file.filename, PROCESSING_DIR / "{job}_chunk_{i}.mp3",
\* FINAL_AUDIO_DIR / "{job}.mp3" and its list file, final_path.with_suffix(".txt").
UploadPath(name) == <<"uploads", name, 0>>
ChunkPath(j, i) == <<"processing", j, i>>
FinalName(j) == j
FinalPath(j) == <<"final_audio", j, 0>>
ListPath(j) == <<"final_audio_txt", j, 0>>
\* download_audio: FINAL_AUDIO_DIR / filename.
DownloadPath(filename) == <<"final_audio", filename, 0>>
\* The upload the modelled run is given.
PdfPath == UploadPath("book.pdf")

VARIABLES
    jobs,              \* JobManager._jobs: job id -> record
    files,             \* the paths that exist on disk
    pc,                \* where convert_pdf_to_audio stands
    total_chunks,      \* len(sentences)
    cpc,               \* chunk index -> where process_chunk(index) stands
    attempt,           \* chunk index -> its loop variable attempt
    sem_value,         \* the semaphore's free slots
    waiters,           \* the semaphore's FIFO of blocked workers
    completed_chunks,  \* the nonlocal counter
    assembled,         \* successful_chunk_paths, as chunk indexes
    errors,            \* the errors list, as chunk indexes
    manifest,          \* the lines combine_audio_chunks wrote to its list file
    mux,               \* the outcome of the ffmpeg run
    scheduled,         \* paths with a schedule_file_deletion task pending
    written,           \* history: chunk paths a worker of the run wrote
    remove_failed,     \* history: paths whose os.remove raised OSError
    out_of_order,      \* history: a chunk returned before a lower one did
    retried,           \* history: "none", or the latest attempt a retried chunk succeeded on
    gather_msg,        \* history: the job's message when gather returned
    lock,              \* JobManager._lock: the thread that holds it, or None
    tpc,               \* thread -> where its registry call stands
    targ,              \* thread -> the arguments of its call
    tpre,              \* history: thread -> the registry when it took the lock
    tret,              \* thread -> the exception its last call raised, or None
    runs,              \* job id -> its run of convert_pdf_to_audio, seen stage by stage
    response,          \* what the last status query returned
    cls_instance,      \* JobManager._instance: an object, or NoInstance
    objects,           \* how many objects super().__new__ has allocated
    has_jobs,          \* the objects whose _jobs attribute is set
    job_manager        \* thread -> what its last JobManager() returned, or NoInstance

runVars == <<pc, total_chunks, cpc, attempt, sem_value, waiters,
             completed_chunks, assembled, errors, manifest, mux, scheduled,
             written, remove_failed, out_of_order, retried, gather_msg>>
pipeVars == <<files, runVars>>
regVars == <<lock, tpc, targ, tpre, tret>>
jobsVars == <<runs, response>>
clsVars == <<cls_instance, objects, has_jobs, job_manager>>
vars == <<jobs, pipeVars, regVars, jobsVars, clsVars>>

\* ---------------------------------------------------------- registry
\* The record create_job stores: it has no "voice" key.
NewJob == [status |-> PENDING, message |-> Text("Job created, waiting to start."),
           filename |-> None, voice |-> None]

\* get_job: self._jobs.get(job_id) is a record, or None for an unknown id.
HasJob(js, job_id) == job_id \in DOMAIN js
GetJob(js, job_id) == js[job_id]

\* Faulty variant: every update stores the name of the job's final file.
UpdateNamesFile(js, job_id, status, message, filename) ==
    IF job_id \in DOMAIN js
    THEN [js EXCEPT ![job_id] =
            [@ EXCEPT !.status = status,
                      !.message = IF TruthyMsg(message) THEN message ELSE @,
                      !.filename = FinalName(job_id)]]
    ELSE js

\* update_job_status, a whole call under the lock.
UpdateJobStatus(js, job_id, status, message, filename) ==
    IF job_id \in DOMAIN js
    THEN [js EXCEPT ![job_id] =
            [@ EXCEPT !.status = status,
                      !.message = IF TruthyMsg(message) THEN message ELSE @,
                      !.filename = IF TruthyStr(filename) THEN filename ELSE @]]
    ELSE js

\* ---------------------------------------------------------- pipeline
Chunks == 0 .. (total_chunks - 1)
InFlight == {i \in Chunks : cpc[i] \in {"synth", "sleep"}}
Finished == {i \in Chunks : cpc[i] \in {"ok", "err"}}

\* Faulty variant: a semaphore that never blocks.
NeverLocked(value, ws) == FALSE

\* Semaphore.locked(): no free slot, or somebody already waits.
Locked(value, ws) == value = 0 \/ ws # <<>>

\* `async with semaphore` entered by worker i: it takes a slot and calls the
\* synthesizer, or joins the waiters.
Acquire(st, i) ==
    IF Locked(st.value, st.waiters)
    THEN [st EXCEPT !.waiters = Append(@, i), !.cpc[i] = "queued"]
    ELSE [st EXCEPT !.value = @ - 1, !.cpc[i] = "synth"]

\* gather(*tasks): the event loop runs the first step of every task in the
\* order the tasks were created, before anything else of this job.
RECURSIVE StartTasks(_, _, _)
StartTasks(i, n, st) ==
    IF i = n THEN st ELSE StartTasks(i + 1, n, Acquire(st, i))

\* Faulty variant: a release that never wakes a waiter.
ReleaseNoWake(st) == [st EXCEPT !.value = @ + 1]

\* Leaving `async with semaphore`: the slot goes to the first waiter, which
\* then calls the synthesizer, or back to the semaphore.
Release(st) ==
    IF st.waiters # <<>>
    THEN [st EXCEPT !.waiters = Tail(@), !.cpc[Head(st.waiters)] = "synth"]
    ELSE [st EXCEPT !.value = @ + 1]

SemState == [value |-> sem_value, waiters |-> waiters, cpc |-> cpc]

\* Faulty variant: the sort with reverse=True.
RECURSIVE InsertDescending(_, _)
InsertDescending(r, s) ==
    IF s = <<>> THEN <<r>>
    ELSE IF r[1] > Head(s)[1] THEN <<r>> \o s
    ELSE <<Head(s)>> \o InsertDescending(r, Tail(s))
RECURSIVE SortDescending(_)
SortDescending(s) ==
    IF s = <<>> THEN <<>> ELSE InsertDescending(Head(s), SortDescending(Tail(s)))

\* results.sort(key=lambda x: x[0]): an insertion sort on the index.
RECURSIVE Insert(_, _)
Insert(r, s) ==
    IF s = <<>> THEN <<r>>
    ELSE IF r[1] < Head(s)[1] THEN <<r>> \o s
    ELSE <<Head(s)>> \o Insert(r, Tail(s))
RECURSIVE SortByIndex(_)
SortByIndex(s) == IF s = <<>> THEN <<>> ELSE Insert(Head(s), SortByIndex(Tail(s)))

\* Faulty variant: gather without isolation, one worker's error becoming the
\* result of every worker.
GatherFailsTogether ==
    [i \in 1 .. total_chunks |->
        <<i - 1, IF \E k \in Chunks : cpc[k] = "err" THEN "str" ELSE "path">>]

\* What gather returns: each worker's (index, path or error) in task order.
GatherResults == [i \in 1 .. total_chunks |->
                    <<i - 1, IF cpc[i - 1] = "ok" THEN "path" ELSE "str">>]

\* [r[1] for r in results if isinstance(r[1], Path) and r[1].exists()]
RECURSIVE SuccessfulChunkPaths(_, _)
SuccessfulChunkPaths(results, fs) ==
    IF results = <<>> THEN <<>>
    ELSE LET r == Head(results)
         IN (IF r[2] = "path" /\ ChunkPath(RunJob, r[1]) \in fs THEN <<r[1]>> ELSE <<>>)
            \o SuccessfulChunkPaths(Tail(results), fs)

\* [r[1] for r in results if isinstance(r[1], str)]
RECURSIVE Errors(_)
Errors(results) ==
    IF results = <<>> THEN <<>>
    ELSE LET r == Head(results)
         IN (IF r[2] = "str" THEN <<r[1]>> ELSE <<>>) \o Errors(Tail(results))

\* Faulty variant: every error is joined into the message.
AllErrors(errs) == errs

\* errors[:5]
FirstErrors(errs) == SubSeq(errs, 1, IF Len(errs) < MaxErrorsShown THEN Len(errs) ELSE MaxErrorsShown)

Range(s) == {s[k] : k \in 1 .. Len(s)}

RECURSIVE Ascending(_)
\* The members of a set of numbers, in increasing order.
Ascending(S) ==
    IF S = {} THEN <<>>
    ELSE LET m == CHOOSE x \in S : \A y \in S : x <= y
         IN <<m>> \o Ascending(S \ {m})

\* The finally block: what it tries to remove, given successful_chunk_paths.
CleanupTargets(fs, succ) ==
    (IF PdfPath \in fs THEN {PdfPath} ELSE {}) \cup {ChunkPath(RunJob, i) : i \in Range(succ)}

\* Faulty variant: a failure message that leaves the exception out.
GenericFailure(e) == Text("Conversion failed.")

\* f"Conversion failed: {e}"
ConversionFailed(e) == [e EXCEPT !.kind = "Conversion failed: " \o @]

\* Faulty variant: the first os.remove that raises ends the finally block (the pdf
\* is removed first, then the chunks in list order).
FinallyStopsAtError(fs, succ) ==
    \E bad \in SUBSET CleanupTargets(fs, succ) :
        /\ Cardinality(bad) <= MaxRemoveErrors
        /\ remove_failed' = bad
        /\ files' = IF bad = {} THEN fs \ CleanupTargets(fs, succ)
                    ELSE IF PdfPath \in bad THEN fs
                    ELSE fs \ ({PdfPath} \cup
                               {ChunkPath(RunJob, i) : i \in
                                  {k \in Range(succ) :
                                     \A b \in Range(succ) : ChunkPath(RunJob, b) \in bad => k < b}})

\* The finally block on the disk fs: every target is removed unless its
\* os.remove raises OSError, which is printed and the loop goes on.
Finally(fs, succ) ==
    \E bad \in SUBSET CleanupTargets(fs, succ) :
        /\ Cardinality(bad) <= MaxRemoveErrors
        /\ files' = fs \ (CleanupTargets(fs, succ) \ bad)
        /\ remove_failed' = bad

\* An exception e raised in the try block: the except clause sets FAILED,
\* then the finally block runs and the coroutine returns.
Raise(js, e, fs, succ) ==
    /\ jobs' = UpdateJobStatus(js, RunJob, FAILED, ConversionFailed(e), None)
    /\ Finally(fs, succ)
    /\ pc' = "done"

\* Line 95: the run's first update.
Start ==
    /\ pc = "start"
    /\ jobs' = UpdateJobStatus(jobs, RunJob, PROCESSING,
                               Text("Starting PDF to audiobook conversion."), None)
    /\ pc' = "details"
    /\ UNCHANGED <<files, total_chunks, cpc, attempt, sem_value, waiters, completed_chunks,
                   assembled, errors, manifest, mux, scheduled, written, remove_failed,
                   out_of_order, retried, gather_msg, regVars, jobsVars, clsVars>>

\* Lines 101-113: the job's details and voice are read, then "Parsing PDF...".
GetDetails ==
    /\ pc = "details"
    /\ IF ~HasJob(jobs, RunJob)
       THEN Raise(jobs, Text("Job not found."), files, <<>>)
       ELSE IF ~TruthyStr(GetJob(jobs, RunJob).voice)
       THEN Raise(jobs, Text("No voice selected for job."), files, <<>>)
       ELSE /\ jobs' = UpdateJobStatus(jobs, RunJob, PROCESSING, Text("Parsing PDF..."), None)
            /\ pc' = "parse"
            /\ UNCHANGED <<files, remove_failed>>
    /\ UNCHANGED <<total_chunks, cpc, attempt, sem_value, waiters, completed_chunks,
                   assembled, errors, manifest, mux, scheduled, written,
                   out_of_order, retried, gather_msg, regVars, jobsVars, clsVars>>

\* Lines 113-120: parse_pdf returned text, returned "" or raised.
ParseDone(r) ==
    /\ pc = "parse"
    /\ IF r = "text"
       THEN /\ jobs' = UpdateJobStatus(jobs, RunJob, PROCESSING, Text("Chunking text..."), None)
            /\ pc' = "chunk"
            /\ UNCHANGED <<files, remove_failed>>
       ELSE IF r = "empty"
       THEN Raise(jobs, Text("Could not extract text from PDF."), files, <<>>)
       ELSE Raise(jobs, Text("parse_pdf raised"), files, <<>>)
    /\ UNCHANGED <<total_chunks, cpc, attempt, sem_value, waiters, completed_chunks,
                   assembled, errors, manifest, mux, scheduled, written,
                   out_of_order, retried, gather_msg, regVars, jobsVars, clsVars>>

\* Lines 120-173: chunk_text returned n chunks; the engine is built (or
\* get_tts_engine raises ValueError), the workers are created and started.
ChunkDone(n, engine_ok) ==
    /\ pc = "chunk"
    /\ IF n = 0
       THEN /\ Raise(jobs, Text("No sentences found in the PDF text."), files, <<>>)
            /\ UNCHANGED <<total_chunks, cpc, attempt, sem_value, waiters>>
       ELSE LET js == UpdateJobStatus(jobs, RunJob, PROCESSING,
                                      Msg("Synthesizing {n} audio chunks...", 0, n, <<>>), None)
            IN IF ~engine_ok
               THEN /\ Raise(js, Text("Unsupported TTS_ENGINE"), files, <<>>)
                    /\ UNCHANGED <<total_chunks, cpc, attempt, sem_value, waiters>>
               ELSE LET st == StartTasks(0, n, [value |-> SemaphoreSize, waiters |-> <<>>,
                                                cpc |-> [i \in 0 .. n - 1 |-> "new"]])
                    IN /\ jobs' = js
                       /\ total_chunks' = n
                       /\ cpc' = st.cpc
                       /\ sem_value' = st.value
                       /\ waiters' = st.waiters
                       /\ attempt' = [i \in 0 .. n - 1 |-> 0]
                       /\ pc' = "gather"
                       /\ UNCHANGED <<files, remove_failed>>
    /\ UNCHANGED <<completed_chunks, assembled, errors, manifest, mux, scheduled,
                   written, out_of_order, retried, gather_msg, regVars, jobsVars, clsVars>>

\* History of the successes after a retry: "third" while every retried chunk
\* succeeded on its third attempt, "second" once one succeeded on its second.
RetriedAfter(h, a) ==
    IF a = 0 \/ h = "second" THEN h
    ELSE IF a = 1 THEN "second" ELSE "third"

\* Faulty variant: the message counts by the chunk's index.
ProgressByIndex(completed, index, total) ==
    Msg("Synthesizing audio: {k}/{n} chunks processed.", index + 1, total, <<>>)

\* Faulty variant: the message is formatted before the counter is incremented.
ProgressBeforeIncrement(completed, index, total) ==
    Msg("Synthesizing audio: {k}/{n} chunks processed.", completed - 1, total, <<>>)

\* Line 158: the progress message worker `index` publishes.
Progress(completed, index, total) ==
    Msg("Synthesizing audio: {k}/{n} chunks processed.", completed, total, <<>>)

\* A lower chunk that has not returned yet.
LowerPending(i) == \E k \in Chunks : k < i /\ cpc[k] \notin {"ok", "err"}

\* Lines 146-161: worker i's attempt succeeded: the audio is synthesized and
\* written, the counter and the message are updated, the worker returns its
\* path and leaves the semaphore.
SynthOk(i) ==
    /\ cpc[i] = "synth"
    /\ LET st == Release([SemState EXCEPT !.cpc[i] = "ok"])
       IN /\ cpc' = st.cpc
          /\ sem_value' = st.value
          /\ waiters' = st.waiters
    /\ files' = files \cup {ChunkPath(RunJob, i)}
    /\ written' = written \cup {ChunkPath(RunJob, i)}
    /\ completed_chunks' = completed_chunks + 1
    /\ jobs' = UpdateJobStatus(jobs, RunJob, PROCESSING,
                               Progress(completed_chunks + 1, i, total_chunks), None)
    /\ attempt' = [attempt EXCEPT ![i] = 0]
    /\ retried' = RetriedAfter(retried, attempt[i])
    /\ out_of_order' = (out_of_order \/ LowerPending(i))
    /\ UNCHANGED <<pc, total_chunks, assembled, errors, manifest, mux, scheduled,
                   remove_failed, gather_msg, regVars, jobsVars, clsVars>>

\* Faulty variant: one retry only.
RetryOnce(a) == a < 1

\* Line 163: `if attempt < retries - 1`.
MayRetry(a) == a < Retries - 1

\* Lines 162-169: worker i's attempt raised (the synthesizer or the write):
\* it backs off before the next attempt, or after the last one returns its
\* error message and leaves the semaphore.
SynthFail(i) ==
    /\ cpc[i] = "synth"
    /\ IF MayRetry(attempt[i])
       THEN /\ cpc' = [cpc EXCEPT ![i] = "sleep"]
            /\ UNCHANGED <<sem_value, waiters, attempt>>
       ELSE LET st == Release([SemState EXCEPT !.cpc[i] = "err"])
            IN /\ cpc' = st.cpc
               /\ sem_value' = st.value
               /\ waiters' = st.waiters
               /\ attempt' = [attempt EXCEPT ![i] = 0]
    /\ UNCHANGED <<jobs, files, pc, total_chunks, completed_chunks, assembled, errors,
                   manifest, mux, scheduled, written, remove_failed, out_of_order, retried, gather_msg, regVars, jobsVars, clsVars>>

\* Line 165: the backoff sleep of worker i is over; the loop's next attempt
\* calls the synthesizer.
BackoffDone(i) ==
    /\ cpc[i] = "sleep"
    /\ cpc' = [cpc EXCEPT ![i] = "synth"]
    /\ attempt' = [attempt EXCEPT ![i] = @ + 1]
    /\ UNCHANGED <<jobs, files, pc, total_chunks, sem_value, waiters, completed_chunks,
                   assembled, errors, manifest, mux, scheduled, written, remove_failed,
                   out_of_order, retried, gather_msg, regVars, jobsVars, clsVars>>

\* Faulty variant: any chunk error fails the run.
AnyFailed(succ, errs) == errs # <<>>

\* Line 182: `if not successful_chunk_paths`.
NoneSucceeded(succ, errs) == succ = <<>>

\* Faulty variant: gather returns when the first worker has returned.
AnyReturned == Finished # {}

\* gather returns once every worker has returned.
AllReturned == Finished = Chunks

\* Lines 173-196: the results are sorted and split; with no successful chunk
\* the run fails, otherwise the assembler is started.
GatherDone ==
    /\ pc = "gather"
    /\ AllReturned
    /\ \E results \in {SortByIndex(GatherResults)} :
       \E succ \in {SuccessfulChunkPaths(results, files)}, errs \in {Errors(results)} :
          /\ assembled' = succ
          /\ errors' = errs
          /\ gather_msg' = (IF HasJob(jobs, RunJob) THEN jobs[RunJob].message ELSE NoneMsg)
          /\ IF NoneSucceeded(succ, errs)
             THEN Raise(jobs, Msg("No audio chunks were successfully synthesized. Errors: ",
                                  0, 0, FirstErrors(errs)), files, succ)
             ELSE /\ jobs' = UpdateJobStatus(jobs, RunJob, PROCESSING,
                                Msg("Synthesized {k}/{n} chunks. Combining audio...",
                                    Len(succ), total_chunks, <<>>), None)
                  /\ pc' = "combine"
                  /\ UNCHANGED <<files, remove_failed>>
    /\ UNCHANGED <<total_chunks, cpc, attempt, sem_value, waiters, completed_chunks,
                   manifest, mux, scheduled, written, out_of_order, retried, regVars, jobsVars, clsVars>>

\* combine_audio_chunks, lines 51-55: one line per chunk path, in list order.
ManifestLines(chunk_paths) == [k \in 1 .. Len(chunk_paths) |-> chunk_paths[k]]

\* Lines 196-230: combine_audio_chunks returned or raised. ffmpeg wrote
\* the final file, or failed, leaving a partial output file or none.
CombineDone(outcome) ==
    /\ pc = "combine"
    /\ manifest' = ManifestLines(assembled)
    /\ IF outcome = "ok"
       THEN /\ mux' = "ok"
            /\ jobs' = UpdateJobStatus(jobs, RunJob, COMPLETE,
                                       Text("Audiobook conversion complete!"), FinalName(RunJob))
            /\ scheduled' = scheduled \cup {FinalPath(RunJob)}
            /\ Finally(files \cup {FinalPath(RunJob)}, assembled)
            /\ pc' = "done"
       ELSE /\ mux' = "failed"
            /\ UNCHANGED scheduled
            /\ Raise(jobs, Text("Audio combination failed"),
                     IF outcome = "partial" THEN files \cup {FinalPath(RunJob)} ELSE files,
                     assembled)
    /\ UNCHANGED <<total_chunks, cpc, attempt, sem_value, waiters, completed_chunks,
                   assembled, errors, written, out_of_order, retried, gather_msg, regVars, jobsVars, clsVars>>

\* Faulty variant: a removal that raises marks the job FAILED.
DeletionEscalates(path, remove_ok) ==
    /\ path \in scheduled
    /\ scheduled' = scheduled \ {path}
    /\ files' = IF path \in files /\ remove_ok THEN files \ {path} ELSE files
    /\ jobs' = IF remove_ok THEN jobs
               ELSE UpdateJobStatus(jobs, RunJob, FAILED, Text("Scheduled deletion failed"), None)
    /\ UNCHANGED <<pc, total_chunks, cpc, attempt, sem_value, waiters,
                   completed_chunks, assembled, errors, manifest, mux, written,
                   remove_failed, out_of_order, retried, gather_msg, regVars, jobsVars, clsVars>>

\* schedule_file_deletion after its sleep: the file is removed if it is
\* there, unless os.remove raises OSError, which is printed.
ScheduledDeletion(path, remove_ok) ==
    /\ path \in scheduled
    /\ scheduled' = scheduled \ {path}
    /\ files' = IF path \in files /\ remove_ok THEN files \ {path} ELSE files
    /\ UNCHANGED <<jobs, pc, total_chunks, cpc, attempt, sem_value, waiters,
                   completed_chunks, assembled, errors, manifest, mux, written,
                   remove_failed, out_of_order, retried, gather_msg, regVars, jobsVars, clsVars>>

\* ---------------------------------------------- threads on the registry
Threads == {"t1", "t2"}

\* The arguments of a call, and a call's outcome.
Args(job_id, status, message, filename, voice) ==
    [job_id |-> job_id, status |-> status, message |-> message, filename |-> filename,
     voice |-> voice]
NoArg == Args(None, None, NoneMsg, None, None)

\* An id no create_job call ever returned.
UnknownJob == "j3"

RegIdle ==
    /\ lock = None
    /\ tpc = [t \in Threads |-> "idle"]
    /\ targ = [t \in Threads |-> NoArg]
    /\ tpre = [t \in Threads |-> <<>>]
    /\ tret = [t \in Threads |-> None]

\* Faulty variant: `with self._lock` entered without waiting for the lock.
LockIgnored(l) == TRUE

\* threading.Lock: `with self._lock` is entered only while nobody holds it.
LockFree(l) == l = None

\* `with self._lock:` entered by thread t, going on at `to`.
Enter(t, from, to) ==
    /\ tpc[t] = from
    /\ LockFree(lock)
    /\ lock' = t
    /\ tpre' = [tpre EXCEPT ![t] = jobs]
    /\ tpc' = [tpc EXCEPT ![t] = to]

\* The with block left and the method returned: the lock is released.
Leave(t, from) ==
    /\ tpc[t] = from
    /\ lock' = None
    /\ tpre' = [tpre EXCEPT ![t] = <<>>]
    /\ targ' = [targ EXCEPT ![t] = NoArg]
    /\ tpc' = [tpc EXCEPT ![t] = "idle"]

\* create_job, line 19: uuid4 gives an id no job and no other call has.
CreateCall(t, job_id) ==
    /\ tpc[t] = "idle"
    /\ job_id \notin DOMAIN jobs
    /\ \A u \in Threads : targ[u].job_id # job_id \/ tpc[u] \notin {"create_lock", "create_write"}
    /\ tpc' = [tpc EXCEPT ![t] = "create_lock"]
    /\ targ' = [targ EXCEPT ![t] = Args(job_id, None, NoneMsg, None, None)]
    /\ tret' = [tret EXCEPT ![t] = None]
    /\ UNCHANGED <<jobs, pipeVars, jobsVars, clsVars, lock, tpre>>

\* create_job, line 20.
CreateEnter(t) ==
    /\ Enter(t, "create_lock", "create_write")
    /\ UNCHANGED <<jobs, pipeVars, jobsVars, clsVars, targ, tret>>

\* create_job, lines 21-26: the record is stored and the id returned.
CreateWrite(t) ==
    /\ jobs' = [j \in DOMAIN jobs \cup {targ[t].job_id} |->
                  IF j = targ[t].job_id THEN NewJob ELSE jobs[j]]
    /\ Leave(t, "create_write")
    /\ UNCHANGED <<pipeVars, jobsVars, clsVars, tret>>

\* update_job_status is called.
UpdateCall(t, job_id, status, message, filename) ==
    /\ tpc[t] = "idle"
    /\ tpc' = [tpc EXCEPT ![t] = "update_lock"]
    /\ targ' = [targ EXCEPT ![t] = Args(job_id, status, message, filename, None)]
    /\ tret' = [tret EXCEPT ![t] = None]
    /\ UNCHANGED <<jobs, pipeVars, jobsVars, clsVars, lock, tpre>>

\* update_job_status, lines 33-34 and 40-42: an unknown id is printed.
UpdateEnter(t) ==
    /\ Enter(t, "update_lock",
             IF HasJob(jobs, targ[t].job_id) THEN "update_status" ELSE "update_unlock")
    /\ UNCHANGED <<jobs, pipeVars, jobsVars, clsVars, targ, tret>>

\* update_job_status, line 35.
UpdateStatus(t) ==
    /\ tpc[t] = "update_status"
    /\ jobs' = [jobs EXCEPT ![targ[t].job_id].status = targ[t].status]
    /\ tpc' = [tpc EXCEPT ![t] = "update_message"]
    /\ UNCHANGED <<pipeVars, jobsVars, clsVars, lock, targ, tpre, tret>>

\* update_job_status, lines 36-37.
UpdateMessage(t) ==
    /\ tpc[t] = "update_message"
    /\ jobs' = IF TruthyMsg(targ[t].message)
               THEN [jobs EXCEPT ![targ[t].job_id].message = targ[t].message]
               ELSE jobs
    /\ tpc' = [tpc EXCEPT ![t] = "update_filename"]
    /\ UNCHANGED <<pipeVars, jobsVars, clsVars, lock, targ, tpre, tret>>

\* update_job_status, lines 38-39.
UpdateFilename(t) ==
    /\ tpc[t] = "update_filename"
    /\ jobs' = IF TruthyStr(targ[t].filename)
               THEN [jobs EXCEPT ![targ[t].job_id].filename = targ[t].filename]
               ELSE jobs
    /\ tpc' = [tpc EXCEPT ![t] = "update_unlock"]
    /\ UNCHANGED <<pipeVars, jobsVars, clsVars, lock, targ, tpre, tret>>

\* update_job_status leaves the with block and returns None.
UpdateReturn(t) ==
    /\ Leave(t, "update_unlock")
    /\ UNCHANGED <<jobs, pipeVars, jobsVars, clsVars, tret>>

\* upload_pdf, lines 74-80: the upload is saved under its client file name.
UploadSave(t, name, voice) ==
    /\ tpc[t] = "idle"
    /\ files' = files \cup {UploadPath(name)}
    /\ tpc' = [tpc EXCEPT ![t] = "upload_create"]
    /\ targ' = [targ EXCEPT ![t] = Args(None, None, NoneMsg, None, voice)]
    /\ tret' = [tret EXCEPT ![t] = None]
    /\ UNCHANGED <<jobs, runVars, jobsVars, clsVars, lock, tpre>>

\* upload_pdf, line 82: create_job(voice=voice). create_job takes no such
\* parameter, so the call raises TypeError before create_job's body runs:
\* no record is stored and line 85 never schedules the pipeline.
UploadCreate(t) ==
    /\ tpc[t] = "upload_create"
    /\ tpc' = [tpc EXCEPT ![t] = "idle"]
    /\ targ' = [targ EXCEPT ![t] = NoArg]
    /\ tret' = [tret EXCEPT ![t] = "TypeError"]
    /\ UNCHANGED <<jobs, pipeVars, jobsVars, clsVars, lock, tpre>>

\* get_job is called.
GetCall(t, job_id) ==
    /\ tpc[t] = "idle"
    /\ tpc' = [tpc EXCEPT ![t] = "get_lock"]
    /\ targ' = [targ EXCEPT ![t] = Args(job_id, None, NoneMsg, None, None)]
    /\ tret' = [tret EXCEPT ![t] = None]
    /\ UNCHANGED <<jobs, pipeVars, jobsVars, clsVars, lock, tpre>>

\* get_job, line 29.
GetEnter(t) ==
    /\ Enter(t, "get_lock", "get_read")
    /\ UNCHANGED <<jobs, pipeVars, jobsVars, clsVars, targ, tret>>

\* get_job, line 30: self._jobs.get(job_id) is read and returned.
GetReturn(t) ==
    /\ Leave(t, "get_read")
    /\ UNCHANGED <<jobs, pipeVars, jobsVars, clsVars, tret>>

\* ------------------------------------------------ JobManager.__new__
\* `_instance = None`, line 7.
NoInstance == 0

\* The registry as the modules' imports leave it: one object, its job map
\* set, bound to every caller's `job_manager`.
Constructed ==
    /\ cls_instance = 1
    /\ objects = 1
    /\ has_jobs = {1}
    /\ job_manager = [t \in Threads |-> 1]

\* The class before any JobManager() call.
Unconstructed ==
    /\ cls_instance = NoInstance
    /\ objects = 0
    /\ has_jobs = {}
    /\ job_manager = [t \in Threads |-> NoInstance]

\* Faulty variant: the check under the lock left out.
NoSecondCheck(inst) == TRUE

\* Line 13: `if cls._instance is None`, under the lock.
SecondCheck(inst) == inst = NoInstance

\* JobManager() is called by thread t.
NewCall(t) ==
    /\ tpc[t] = "idle"
    /\ tpc' = [tpc EXCEPT ![t] = "new_check"]
    /\ tret' = [tret EXCEPT ![t] = None]
    /\ UNCHANGED <<jobs, pipeVars, jobsVars, clsVars, lock, targ, tpre>>

\* Line 11: `if cls._instance is None`, read without the lock.
NewCheck(t) ==
    /\ tpc[t] = "new_check"
    /\ tpc' = [tpc EXCEPT ![t] = IF cls_instance = NoInstance THEN "new_lock" ELSE "new_return"]
    /\ UNCHANGED <<jobs, pipeVars, jobsVars, clsVars, lock, targ, tpre, tret>>

\* Line 12: `with cls._lock`.
NewEnter(t) ==
    /\ Enter(t, "new_lock", "new_check2")
    /\ UNCHANGED <<jobs, pipeVars, jobsVars, clsVars, targ, tret>>

\* Line 13.
NewCheck2(t) ==
    /\ tpc[t] = "new_check2"
    /\ tpc' = [tpc EXCEPT ![t] = IF SecondCheck(cls_instance) THEN "new_alloc" ELSE "new_unlock"]
    /\ UNCHANGED <<jobs, pipeVars, jobsVars, clsVars, lock, targ, tpre, tret>>

\* Line 14: `cls._instance = super().__new__(cls)`, a fresh object that has
\* no _jobs attribute yet.
NewAlloc(t) ==
    /\ tpc[t] = "new_alloc"
    /\ objects' = objects + 1
    /\ cls_instance' = objects + 1
    /\ tpc' = [tpc EXCEPT ![t] = "new_init"]
    /\ UNCHANGED <<jobs, pipeVars, jobsVars, has_jobs, job_manager, lock, targ, tpre, tret>>

\* Line 15: `cls._instance._jobs = {}`, on the object the class holds now.
NewInit(t) ==
    /\ tpc[t] = "new_init"
    /\ has_jobs' = has_jobs \cup {cls_instance}
    /\ jobs' = <<>>
    /\ tpc' = [tpc EXCEPT ![t] = "new_unlock"]
    /\ UNCHANGED <<pipeVars, jobsVars, cls_instance, objects, job_manager, lock, targ, tpre,
                   tret>>

\* The with block of line 12 is left.
NewUnlock(t) ==
    /\ tpc[t] = "new_unlock"
    /\ lock' = None
    /\ tpre' = [tpre EXCEPT ![t] = <<>>]
    /\ tpc' = [tpc EXCEPT ![t] = "new_return"]
    /\ UNCHANGED <<jobs, pipeVars, jobsVars, clsVars, targ, tret>>

\* Line 16: `return cls._instance`, bound to the caller's `job_manager`.
NewReturn(t) ==
    /\ tpc[t] = "new_return"
    /\ job_manager' = [job_manager EXCEPT ![t] = cls_instance]
    /\ tpc' = [tpc EXCEPT ![t] = "idle"]
    /\ UNCHANGED <<jobs, pipeVars, jobsVars, cls_instance, objects, has_jobs, lock, targ,
                   tpre, tret>>

\* ------------------------------------------- runs and queries on one loop
\* File names clients upload.
Names == {"book.pdf", "notes.pdf"}

\* A job that has no run, and a run as upload_pdf schedules it: the saved
\* upload is its pdf_path.
NoRun == [pc |-> "none", src |-> UploadPath(None), res |-> <<>>]
NewRun(name) == [pc |-> "start", src |-> UploadPath(name), res |-> <<>>]

\* No query answered yet, and HTTPException(404).
NoResponse == [job_id |-> None, status |-> None, message |-> NoneMsg, filename |-> None]
NotFound == [job_id |-> None, status |-> "404", message |-> Text("Job not found."),
             filename |-> None]

JobsIdle ==
    /\ runs = [j \in JobIds |-> NoRun]
    /\ response = NoResponse

\* Faulty variant: the status of the record with the message it was created with.
TornResponse(job_id, job) ==
    [job_id |-> job_id, status |-> job.status, message |-> NewJob.message,
     filename |-> job.filename]

\* JobStatusResponse(job_id=..., status=job["status"], ...).
JobStatusResponse(job_id, job) ==
    [job_id |-> job_id, status |-> job.status, message |-> job.message,
     filename |-> job.filename]

\* The pipeline variables of the single run, but for the scheduled deletions.
restVars == <<pc, total_chunks, cpc, attempt, sem_value, waiters, completed_chunks,
              assembled, errors, manifest, mux, written, remove_failed, out_of_order,
              retried, gather_msg>>

\* The chunks of job j's run, those that returned a path and those at work.
JobChunks(j) == DOMAIN runs[j].res
JobOk(j) == {i \in JobChunks(j) : runs[j].res[i] = "ok"}
JobAtWork(j) == {i \in JobChunks(j) : runs[j].res[i] = "run"}

\* The finally block of job j's run: its pdf_path if it exists and the
\* chunk files of successful_chunk_paths, but for those whose os.remove raises.
JobFinally(fs, j, succ) ==
    LET targets == ({runs[j].src} \cap fs) \cup {ChunkPath(j, i) : i \in succ}
    IN \E bad \in SUBSET targets :
          /\ Cardinality(bad) <= MaxRemoveErrors
          /\ files' = fs \ (targets \ bad)

\* An exception in job j's try block: FAILED, the finally block, return.
JobFail(j, js, e, fs, succ) ==
    /\ jobs' = UpdateJobStatus(js, j, FAILED, ConversionFailed(e), None)
    /\ JobFinally(fs, j, succ)
    /\ runs' = [runs EXCEPT ![j].pc = "done"]

\* Lines 95-113, up to the await of parse_pdf.
JobStart(j) ==
    /\ runs[j].pc = "start"
    /\ LET js == UpdateJobStatus(jobs, j, PROCESSING,
                                  Text("Starting PDF to audiobook conversion."), None)
       IN IF ~HasJob(js, j)
          THEN JobFail(j, js, Text("Job not found."), files, {})
          ELSE IF ~TruthyStr(GetJob(js, j).voice)
          THEN JobFail(j, js, Text("No voice selected for job."), files, {})
          ELSE /\ jobs' = UpdateJobStatus(js, j, PROCESSING, Text("Parsing PDF..."), None)
               /\ runs' = [runs EXCEPT ![j].pc = "parse"]
               /\ UNCHANGED files
    /\ UNCHANGED <<restVars, scheduled, regVars, response, clsVars>>

\* Lines 113-120: parse_pdf opened pdf_path and returned text or "", or
\* raised because the file is not there.
JobParse(j, r) ==
    /\ runs[j].pc = "parse"
    /\ IF runs[j].src \notin files
       THEN JobFail(j, jobs, Text("parse_pdf raised"), files, {})
       ELSE IF r = "empty"
       THEN JobFail(j, jobs, Text("Could not extract text from PDF."), files, {})
       ELSE /\ jobs' = UpdateJobStatus(jobs, j, PROCESSING, Text("Chunking text..."), None)
            /\ runs' = [runs EXCEPT ![j].pc = "chunk"]
            /\ UNCHANGED files
    /\ UNCHANGED <<restVars, scheduled, regVars, response, clsVars>>

\* Lines 120-173: chunk_text returned n chunks and the workers are started;
\* with so few chunks every worker gets a slot at once.
JobChunk(j, n, engine_ok) ==
    /\ runs[j].pc = "chunk"
    /\ IF n = 0
       THEN JobFail(j, jobs, Text("No sentences found in the PDF text."), files, {})
       ELSE LET js == UpdateJobStatus(jobs, j, PROCESSING,
                                      Msg("Synthesizing {n} audio chunks...", 0, n, <<>>), None)
            IN IF ~engine_ok
               THEN JobFail(j, js, Text("Unsupported TTS_ENGINE"), files, {})
               ELSE /\ jobs' = js
                    /\ runs' = [runs EXCEPT ![j].pc = "gather",
                                            ![j].res = [i \in 0 .. n - 1 |-> "run"]]
                    /\ UNCHANGED files
    /\ UNCHANGED <<restVars, scheduled, regVars, response, clsVars>>

\* Lines 142-170: worker i of job j returns, with the path of the chunk file
\* it wrote and the progress published, or with the error of its last attempt.
JobWorker(j, i, ok) ==
    /\ runs[j].pc = "gather"
    /\ i \in JobAtWork(j)
    /\ IF ok
       THEN /\ files' = files \cup {ChunkPath(j, i)}
            /\ jobs' = UpdateJobStatus(jobs, j, PROCESSING,
                           Progress(Cardinality(JobOk(j)) + 1, i, Cardinality(JobChunks(j))),
                           None)
            /\ runs' = [runs EXCEPT ![j].res[i] = "ok"]
       ELSE /\ runs' = [runs EXCEPT ![j].res[i] = "err"]
            /\ UNCHANGED <<jobs, files>>
    /\ UNCHANGED <<restVars, scheduled, regVars, response, clsVars>>

\* Lines 173-196: gather returned; the run fails with no chunk file, or
\* starts the assembler.
JobGather(j) ==
    /\ runs[j].pc = "gather"
    /\ JobAtWork(j) = {}
    /\ LET succ == {i \in JobOk(j) : ChunkPath(j, i) \in files}
           errs == Ascending(JobChunks(j) \ JobOk(j))
       IN IF succ = {}
          THEN JobFail(j, jobs, Msg("No audio chunks were successfully synthesized. Errors: ",
                                    0, 0, FirstErrors(errs)), files, succ)
          ELSE /\ jobs' = UpdateJobStatus(jobs, j, PROCESSING,
                             Msg("Synthesized {k}/{n} chunks. Combining audio...",
                                 Cardinality(succ), Cardinality(JobChunks(j)), <<>>), None)
               /\ runs' = [runs EXCEPT ![j].pc = "combine"]
               /\ UNCHANGED files
    /\ UNCHANGED <<restVars, scheduled, regVars, response, clsVars>>

\* Lines 196-230: combine_audio_chunks returned or raised.
JobCombine(j, outcome) ==
    /\ runs[j].pc = "combine"
    /\ LET succ == {i \in JobOk(j) : ChunkPath(j, i) \in files}
       IN IF outcome = "ok"
          THEN /\ jobs' = UpdateJobStatus(jobs, j, COMPLETE,
                                          Text("Audiobook conversion complete!"), FinalName(j))
               /\ scheduled' = scheduled \cup {FinalPath(j)}
               /\ JobFinally(files \cup {FinalPath(j)}, j, succ)
               /\ runs' = [runs EXCEPT ![j].pc = "done"]
          ELSE /\ UNCHANGED scheduled
               /\ JobFail(j, jobs, Text("Audio combination failed"),
                          IF outcome = "partial" THEN files \cup {FinalPath(j)} ELSE files,
                          succ)
    /\ UNCHANGED <<restVars, regVars, response, clsVars>>

\* get_conversion_status: the record is fetched and its three fields read
\* with no await in between; an unknown id is a 404.
StatusQuery(job_id) ==
    /\ response' = IF HasJob(jobs, job_id)
                    THEN JobStatusResponse(job_id, GetJob(jobs, job_id))
                    ELSE NotFound
    /\ UNCHANGED <<jobs, pipeVars, regVars, runs, clsVars>>

\* ------------------------------------------------------------- Spec
\* The registry a run may find: the other job's record, and for its own id
\* no record, a record as create_job writes it (no voice), or a record that
\* carries the voice upload_pdf asks create_job to store.
RunRegistries ==
    {[j \in {OtherJob} |-> NewJob]}
    \cup {[j \in JobIds |-> IF j = RunJob THEN [NewJob EXCEPT !.voice = v] ELSE NewJob] :
            v \in Voices \cup {None}}

Init ==
    /\ jobs \in RunRegistries
    /\ files = {PdfPath}
    /\ pc = "start"
    /\ total_chunks = 0
    /\ cpc = <<>>
    /\ attempt = <<>>
    /\ sem_value = SemaphoreSize
    /\ waiters = <<>>
    /\ completed_chunks = 0
    /\ assembled = <<>>
    /\ errors = <<>>
    /\ manifest = <<>>
    /\ mux = "none"
    /\ scheduled = {}
    /\ written = {}
    /\ remove_failed = {}
    /\ out_of_order = FALSE
    /\ retried = "none"
    /\ gather_msg = NoneMsg
    /\ RegIdle
    /\ JobsIdle
    /\ Constructed

Next ==
    \/ Start
    \/ GetDetails
    \/ \E r \in {"text", "empty", "raise"} : ParseDone(r)
    \/ \E n \in 0 .. MaxChunks, e \in BOOLEAN : ChunkDone(n, e)
    \/ \E i \in Chunks : SynthOk(i)
    \/ \E i \in Chunks : SynthFail(i)
    \/ \E i \in Chunks : BackoffDone(i)
    \/ GatherDone
    \/ \E o \in {"ok", "failed", "partial"} : CombineDone(o)
    \/ \E p \in scheduled, ok \in BOOLEAN : ScheduledDeletion(p, ok)

Spec == Init /\ [][Next]_vars

\* ----------------------------------------------------- claims on Spec
Status(j) == jobs[j].status
Failed == {i \in Chunks : cpc[i] = "err"}
Done == pc = "done"

StrictlyIncreasing(s) == \A a, b \in 1 .. Len(s) : a < b => s[a] < s[b]

\* C1: a job's status changes only PENDING -> PROCESSING, PROCESSING ->
\* COMPLETE or PROCESSING -> FAILED, under every interleaving of the
\* orchestrator's and the workers' updates: nothing leaves COMPLETE or
\* FAILED, and neither is entered from PENDING. No record is ever dropped.
C1_StatusMoves ==
    [][\A j \in DOMAIN jobs :
          /\ j \in DOMAIN jobs'
          /\ (jobs'[j].status # jobs[j].status =>
                <<jobs[j].status, jobs'[j].status>> \in
                    {<<PENDING, PROCESSING>>, <<PROCESSING, COMPLETE>>,
                     <<PROCESSING, FAILED>>})]_vars
\* A run ended COMPLETE after several workers published their progress.
C1_Witness == Done /\ HasJob(jobs, RunJob) /\ Status(RunJob) = COMPLETE /\ completed_chunks >= 2

\* C2: the chunk list handed to the assembler, and the list written to the
\* muxer's manifest, are strictly increasing in chunk index.
C2_AssembledInIndexOrder == StrictlyIncreasing(assembled) /\ StrictlyIncreasing(manifest)
\* The muxer ran on three or more chunks, one of which had succeeded before a
\* lower chunk returned.
C2_Witness == Done /\ mux = "ok" /\ Len(manifest) >= 3 /\ out_of_order

\* C3: a run of N > 1 chunks in which exactly one chunk exhausted its
\* attempts and the muxer did not fail ends COMPLETE, and the assembler got
\* exactly the N-1 other chunks in index order.
C3_OneChunkLost ==
    (Done /\ total_chunks > 1 /\ Cardinality(Failed) = 1 /\ mux # "failed") =>
        /\ Status(RunJob) = COMPLETE
        /\ mux = "ok"
        /\ assembled = Ascending(Chunks \ Failed)
        /\ manifest = assembled
C3_Witness ==
    Done /\ total_chunks > 1 /\ Cardinality(Failed) = 1 /\ Status(RunJob) = COMPLETE

\* C4: a run of N >= 1 chunks in which every chunk exhausted its attempts
\* never invokes the assembler and ends FAILED with a message that joins the
\* errors of the first min(N, 5) chunks in index order.
C4_AllChunksLost ==
    (Done /\ total_chunks >= 1 /\ Failed = Chunks) =>
        /\ mux = "none" /\ manifest = <<>> /\ assembled = <<>>
        /\ Status(RunJob) = FAILED
        /\ jobs[RunJob].message =
             ConversionFailed(Msg("No audio chunks were successfully synthesized. Errors: ", 0, 0,
                 [k \in 1 .. (IF total_chunks < 5 THEN total_chunks ELSE 5) |-> k - 1]))
\* More than 5 chunks all failed: the cap cuts the list.
C4_Witness == Done /\ total_chunks > 5 /\ Failed = Chunks

\* C6: a run in which no chunk exhausted its attempts (chunks may have
\* failed once or twice before succeeding) and the muxer did not fail ends
\* COMPLETE, the assembler got all N chunks in index order, and the message
\* was "N/N chunks processed" when gather returned, before the assembly.
C6_RetriedChunksAllAssembled ==
    (Done /\ total_chunks >= 1 /\ Failed = {} /\ mux # "failed") =>
        /\ Status(RunJob) = COMPLETE
        /\ assembled = [k \in 1 .. total_chunks |-> k - 1]
        /\ manifest = assembled
        /\ gather_msg.kind = "Synthesizing audio: {k}/{n} chunks processed."
        /\ gather_msg.k = total_chunks /\ gather_msg.n = total_chunks
\* More chunks than slots; some succeeded on their third attempt, all the
\* others on their first.
C6_Witness ==
    Done /\ total_chunks > SemaphoreSize /\ Failed = {} /\ retried = "third"
         /\ Status(RunJob) = COMPLETE

C10_AtMostFiveInFlight ==
    /\ Cardinality(InFlight) <= SemaphoreSize
    /\ sem_value = SemaphoreSize - Cardinality(InFlight)
\* All 5 slots taken, one of them by a worker backing off, and a chunk waits.
C10_Witness ==
    /\ Cardinality(InFlight) = SemaphoreSize /\ waiters # <<>>
    /\ \E i \in Chunks : cpc[i] = "sleep"

\* C11: the synthesizer is called at most 3 times for a chunk (a call is a
\* worker entering its attempt: the first when it gets its slot, the next
\* after a backoff) and never again once the chunk has returned; a chunk
\* returns an error only from its third attempt failing and a path from any
\* attempt succeeding; and the step in which a chunk returns its error
\* leaves the registry as it was, a run with a surviving chunk failing only
\* if the muxer fails.
C11_AtMostThreeAttempts ==
    [][/\ IF cpc = <<>>
          THEN \A i \in DOMAIN cpc' : cpc'[i] \in {"synth", "queued"} /\ attempt'[i] = 0
          ELSE \A i \in Chunks :
                 (cpc'[i] # cpc[i] \/ attempt'[i] # attempt[i]) =>
                     CASE cpc[i] = "queued" -> cpc'[i] = "synth" /\ attempt'[i] = 0
                       [] cpc[i] = "synth" ->
                            \/ cpc'[i] = "ok"
                            \/ /\ cpc'[i] = "sleep" /\ attempt[i] < Retries - 1
                               /\ attempt'[i] = attempt[i]
                            \/ /\ cpc'[i] = "err" /\ attempt[i] = Retries - 1
                               /\ jobs' = jobs
                       [] cpc[i] = "sleep" ->
                            /\ cpc'[i] = "synth" /\ attempt'[i] = attempt[i] + 1
                            /\ attempt'[i] <= Retries - 1
                       [] OTHER -> FALSE
       /\ (pc' = "done" /\ assembled' # <<>> /\ mux' # "failed" =>
              jobs'[RunJob].status = COMPLETE)]_vars
\* A run ended COMPLETE in which a chunk failed three times and another
\* succeeded on its third attempt.
C11_Witness ==
    Done /\ Failed # {} /\ retried = "third" /\ Status(RunJob) = COMPLETE

\* C12: once gather has returned, every worker has returned (none was
\* cancelled) and the results split into the paths of exactly the chunks
\* whose own attempt succeeded and the errors of exactly the chunks whose own
\* three attempts failed, each index once; and the step in which a chunk
\* fails or returns its error moves no other chunk, but for the first waiter
\* taking the slot it leaves.
C12_OneOutcomePerChunk ==
    [][/\ (pc' \in {"combine", "done"} /\ total_chunks' >= 1 =>
              /\ \A i \in 0 .. total_chunks' - 1 : cpc'[i] \in {"ok", "err"}
              /\ assembled' = Ascending({i \in 0 .. total_chunks' - 1 : cpc'[i] = "ok"})
              /\ errors' = Ascending({i \in 0 .. total_chunks' - 1 : cpc'[i] = "err"})
              /\ Len(assembled') + Len(errors') = total_chunks')
       /\ \A i \in Chunks :
             (cpc[i] = "synth" /\ cpc'[i] \in {"sleep", "err"}) =>
                 \A k \in Chunks \ {i} :
                     /\ attempt'[k] = attempt[k]
                     /\ \/ cpc'[k] = cpc[k]
                        \/ /\ cpc[k] = "queued" /\ cpc'[k] = "synth"
                           /\ cpc'[i] = "err" /\ waiters # <<>> /\ k = Head(waiters)]_vars
\* A run of more chunks than slots that reported two or more lost chunks and
\* two or more surviving ones, a lost chunk before a surviving one.
C12_Witness ==
    /\ Done /\ total_chunks > SemaphoreSize
    /\ Len(errors) >= 2 /\ Len(assembled) >= 2
    /\ \E i \in Range(errors), k \in Range(assembled) : i < k

\* C14: a worker in its backoff sleep keeps no chunk from starting: a chunk
\* waits for a slot only while 5 chunks are in a synthesis attempt.
C14_BackoffBlocksNobody ==
    waiters # <<>> => Cardinality({i \in Chunks : cpc[i] = "synth"}) >= SemaphoreSize

\* C15: while the registry shows the job COMPLETE the muxer has written the
\* final file and no chunk file of the job is left; when the run has
\* returned and the registry shows FAILED, neither a chunk file nor the final
\* file of the job is left. Stated with the allowance that a file whose
\* os.remove raised may stay.
C15_ArtifactsAtEnd ==
    HasJob(jobs, RunJob) =>
        /\ Status(RunJob) = COMPLETE =>
              /\ mux = "ok"
              /\ \A i \in Chunks :
                    ChunkPath(RunJob, i) \notin files \/ ChunkPath(RunJob, i) \in remove_failed
        /\ (Status(RunJob) = FAILED /\ Done) =>
              /\ FinalPath(RunJob) \notin files
              /\ \A i \in Chunks :
                    ChunkPath(RunJob, i) \notin files \/ ChunkPath(RunJob, i) \in remove_failed

\* A step that schedules a deletion, and a step in which the scheduled
\* deletion of path p runs.
Schedules == ~(scheduled' \subseteq scheduled)
Deletes(p) == p \in scheduled /\ scheduled' = scheduled \ {p}
BecomesComplete ==
    /\ HasJob(jobs, RunJob) /\ Status(RunJob) # COMPLETE
    /\ jobs'[RunJob].status = COMPLETE

C17_FilenameOnlyWhenComplete ==
    \A j \in DOMAIN jobs :
        /\ jobs[j].filename # None =>
              /\ jobs[j].status = COMPLETE
              /\ jobs[j].filename = FinalName(j)
              /\ DownloadPath(jobs[j].filename) = FinalPath(j)
        /\ jobs[j].status \in {PENDING, PROCESSING, FAILED} => jobs[j].filename = None
\* A COMPLETE record with its filename, beside a PENDING one without, the
\* run having passed through its PROCESSING updates.
C17_Witness ==
    /\ Done /\ HasJob(jobs, RunJob) /\ Status(RunJob) = COMPLETE
    /\ jobs[RunJob].filename = FinalName(RunJob) /\ FinalPath(RunJob) \in files
    /\ Status(OtherJob) = PENDING /\ jobs[OtherJob].filename = None

\* The stages of a run, in the order the code goes through them.
StageRank(p) ==
    CASE p = "start" -> 0 [] p = "details" -> 1 [] p = "parse" -> 2 [] p = "chunk" -> 3
      [] p = "gather" -> 4 [] p = "combine" -> 5 [] p = "done" -> 6

\* The record of the run's job is FAILED with a message of the given text
\* and without a filename.
FailedWith(js, kinds) ==
    /\ js[RunJob].status = FAILED
    /\ js[RunJob].message.kind \in kinds
    /\ js[RunJob].filename = None

\* C18: a run that ends in a stage ends FAILED with that stage's error as
\* its message and has run no later stage: ending in extraction or chunking
\* no worker was started and no chunk file written; ending after the
\* synthesis with no surviving chunk the muxer was not run; ending with a
\* muxer failure nothing was scheduled and no filename stored. No stage is
\* entered a second time, and a run that has returned changes nothing more.
C18_StageErrorsAreTerminal ==
    [][/\ StageRank(pc') >= StageRank(pc)
       /\ (pc = "parse" /\ pc' = "done") =>
              /\ FailedWith(jobs', {"Conversion failed: Could not extract text from PDF.",
                                    "Conversion failed: parse_pdf raised"})
              /\ total_chunks' = 0 /\ cpc' = <<>> /\ written' = {}
              /\ mux' = "none" /\ manifest' = <<>> /\ scheduled' = {}
       /\ (pc = "chunk" /\ pc' = "done") =>
              /\ FailedWith(jobs', {"Conversion failed: No sentences found in the PDF text.",
                                    "Conversion failed: Unsupported TTS_ENGINE"})
              /\ total_chunks' = 0 /\ cpc' = <<>> /\ written' = {}
              /\ mux' = "none" /\ manifest' = <<>> /\ scheduled' = {}
       /\ (pc = "gather" /\ pc' = "done") =>
              /\ FailedWith(jobs', {"Conversion failed: No audio chunks were successfully synthesized. Errors: "})
              /\ jobs'[RunJob].message.errs # <<>>
              /\ assembled' = <<>>
              /\ mux' = "none" /\ manifest' = <<>> /\ scheduled' = {}
       /\ (pc = "combine" /\ pc' = "done" /\ mux' = "failed") =>
              /\ FailedWith(jobs', {"Conversion failed: Audio combination failed"})
              /\ scheduled' = {}
       /\ pc = "done" => /\ jobs' = jobs /\ cpc' = cpc /\ written' = written
                         /\ mux' = mux /\ manifest' = manifest]_vars
\* A run that the muxer failed, after chunks had been written and assembled.
C18_Witness ==
    /\ Done /\ mux = "failed" /\ Len(manifest) >= 2 /\ Status(RunJob) = FAILED
    /\ scheduled = {}

\* The chunks that have succeeded, before and after a step.
Succeeded == {i \in Chunks : cpc[i] = "ok"}
SucceededNext == {i \in DOMAIN cpc' : cpc'[i] = "ok"}
ProgressKind == "Synthesizing audio: {k}/{n} chunks processed."

\* C19: every chunk success publishes "K/N chunks processed" with K the
\* number of chunks that have succeeded, itself included: one more than the
\* K published before it (1 for the first), never above N; and no other step
\* of the synthesis stage touches the message.
C19_ProgressCountsSuccesses ==
    [][(pc = "gather" /\ pc' = "gather") =>
          IF \E i \in Chunks : cpc[i] # "ok" /\ cpc'[i] = "ok"
          THEN /\ Cardinality(SucceededNext) = Cardinality(Succeeded) + 1
               /\ jobs'[RunJob].status = PROCESSING
               /\ jobs'[RunJob].message =
                     Msg(ProgressKind, Cardinality(SucceededNext), total_chunks, <<>>)
               /\ jobs'[RunJob].message.k <= total_chunks
               /\ jobs'[RunJob].message.k =
                     IF jobs[RunJob].message.kind = ProgressKind
                     THEN jobs[RunJob].message.k + 1 ELSE 1
          ELSE jobs' = jobs]_vars
\* Four chunks have succeeded, one of them before a lower chunk and one after
\* a retry, while two others are still at work.
C19_Witness ==
    /\ pc = "gather" /\ out_of_order /\ retried # "none"
    /\ jobs[RunJob].message = Msg(ProgressKind, 4, total_chunks, <<>>)
    /\ Cardinality(InFlight) = 2

\* ------------------------------------------------------------- SpecFair
\* The chunks whose synthesis attempts may fail: the MaxFaulty chunks of
\* highest index, which are the workers that wait for a slot and the last
\* ones that got one at once.
Faulty == {i \in Chunks : i >= total_chunks - MaxFaulty}

\* The steps of the run itself: every external call returns or fails, and the
\* event loop resumes a coroutine that is ready.  The timer of the scheduled
\* deletion is no part of the run.
RunStep ==
    \/ Start
    \/ GetDetails
    \/ \E r \in {"text", "empty", "raise"} : ParseDone(r)
    \/ \E n \in 0 .. MaxChunks, e \in BOOLEAN : ChunkDone(n, e)
    \/ \E i \in Chunks : SynthOk(i)
    \/ \E i \in Faulty : SynthFail(i)
    \/ \E i \in Chunks : BackoffDone(i)
    \/ GatherDone
    \/ \E o \in {"ok", "failed", "partial"} : CombineDone(o)

NextFair ==
    \/ Start
    \/ GetDetails
    \/ \E r \in {"text", "empty", "raise"} : ParseDone(r)
    \/ \E n \in 0 .. MaxChunks, e \in BOOLEAN : ChunkDone(n, e)
    \/ \E i \in Chunks : SynthOk(i)
    \/ \E i \in Faulty : SynthFail(i)
    \/ \E i \in Chunks : BackoffDone(i)
    \/ GatherDone
    \/ \E o \in {"ok", "failed", "partial"} : CombineDone(o)
    \/ \E p \in scheduled, ok \in BOOLEAN : ScheduledDeletion(p, ok)

SpecFair == Init /\ [][NextFair]_vars /\ WF_vars(RunStep)

\* ------------------------------------------------- claims on SpecFair
\* C21: a run started for a job that has a record eventually ends with that
\* job COMPLETE or FAILED, every chunk worker returned and nobody left waiting
\* for a slot, whatever chunks fail and however often they are retried.
C21_RunEnds ==
    <>(HasJob(jobs, RunJob) =>
          /\ Done
          /\ Status(RunJob) \in {COMPLETE, FAILED}
          /\ Finished = Chunks
          /\ waiters = <<>>)
\* A run of more chunks than slots has ended after one chunk succeeded on its
\* second attempt and another chunk was lost.
C21_Witness ==
    /\ Done /\ HasJob(jobs, RunJob) /\ Status(RunJob) \in {COMPLETE, FAILED}
    /\ total_chunks > SemaphoreSize
    /\ retried = "second" /\ Failed # {}
    /\ Finished = Chunks /\ waiters = <<>>

\* --------------------------------------------------------- SpecJobs
\* Two jobs whose runs upload_pdf's lines 78-85 scheduled: each has its
\* record, without a voice as create_job writes it or with the voice
\* upload_pdf asks for, and its upload saved under the client's file name.
InitJobs ==
    /\ jobs \in [JobIds -> {[NewJob EXCEPT !.voice = v] : v \in Voices \cup {None}}]
    /\ runs \in [JobIds -> {NewRun(name) : name \in Names}]
    /\ files = {runs[j].src : j \in JobIds}
    /\ response = NoResponse
    /\ pc = "start"
    /\ total_chunks = 0
    /\ cpc = <<>>
    /\ attempt = <<>>
    /\ sem_value = SemaphoreSize
    /\ waiters = <<>>
    /\ completed_chunks = 0
    /\ assembled = <<>>
    /\ errors = <<>>
    /\ manifest = <<>>
    /\ mux = "none"
    /\ scheduled = {}
    /\ written = {}
    /\ remove_failed = {}
    /\ out_of_order = FALSE
    /\ retried = "none"
    /\ gather_msg = NoneMsg
    /\ RegIdle
    /\ Constructed

NextJobs ==
    \/ \E j \in JobIds : JobStart(j)
    \/ \E j \in JobIds, r \in {"text", "empty"} : JobParse(j, r)
    \/ \E j \in JobIds, n \in 0 .. MaxJobChunks, e \in BOOLEAN : JobChunk(j, n, e)
    \/ \E j \in JobIds, i \in 0 .. MaxJobChunks - 1, ok \in BOOLEAN : JobWorker(j, i, ok)
    \/ \E j \in JobIds : JobGather(j)
    \/ \E j \in JobIds, o \in {"ok", "failed", "partial"} : JobCombine(j, o)
    \/ \E j \in JobIds \cup {UnknownJob} : StatusQuery(j)
    \/ \E p \in scheduled, ok \in BOOLEAN : ScheduledDeletion(p, ok)

SpecJobs == InitJobs /\ [][NextJobs]_vars

\* ------------------------------------------------- claims on SpecJobs
\* The run of job j has not returned.
Running(j) == runs[j].pc \notin {"none", "done"}
\* The paths the run of job j reads, writes or deletes.
JobFiles(j) ==
    {runs[j].src, ListPath(j), FinalPath(j)}
    \cup {ChunkPath(j, i) : i \in 0 .. MaxJobChunks - 1}

\* C13: two jobs whose runs have not returned share no path, and a step of
\* one job's run removes no file of the other's.
C13_JobsShareNoPath ==
    [][\A j, k \in JobIds :
          (j # k /\ Running(j) /\ Running(k)) =>
              /\ JobFiles(j) \cap JobFiles(k) = {}
              /\ (runs'[j] = runs[j] => (JobFiles(j) \cap files) \subseteq files')]_vars

InitRegistry ==
    /\ jobs = <<>>
    /\ files = {}
    /\ pc = "start"
    /\ total_chunks = 0
    /\ cpc = <<>>
    /\ attempt = <<>>
    /\ sem_value = SemaphoreSize
    /\ waiters = <<>>
    /\ completed_chunks = 0
    /\ assembled = <<>>
    /\ errors = <<>>
    /\ manifest = <<>>
    /\ mux = "none"
    /\ scheduled = {}
    /\ written = {}
    /\ remove_failed = {}
    /\ out_of_order = FALSE
    /\ retried = "none"
    /\ gather_msg = NoneMsg
    /\ RegIdle
    /\ JobsIdle
    /\ Constructed

NextRegistry ==
    \E t \in Threads :
        \/ \E j \in JobIds : CreateCall(t, j)
        \/ CreateEnter(t)
        \/ CreateWrite(t)
        \/ \E j \in {RunJob, UnknownJob}, st \in {PROCESSING, COMPLETE},
              m \in {NoneMsg, Text("Parsing PDF...")}, f \in {None, FinalName(RunJob)} :
                UpdateCall(t, j, st, m, f)
        \/ UpdateEnter(t)
        \/ UpdateStatus(t)
        \/ UpdateMessage(t)
        \/ UpdateFilename(t)
        \/ UpdateReturn(t)
        \/ \E v \in Voices : UploadSave(t, "book.pdf", v)
        \/ UploadCreate(t)

SpecRegistry == InitRegistry /\ [][NextRegistry]_vars

\* ---------------------------------------------- claims on SpecRegistry
InUpdate(t) == tpc[t] \in {"update_status", "update_message", "update_filename",
                           "update_unlock"}
InLock(t) == InUpdate(t) \/ tpc[t] = "create_write"

\* C5: concurrent update calls are applied one after the other: at most one
\* call is between taking and releasing the lock, and when a call has made
\* its writes the registry is the registry it found with this one call
\* applied to it whole, no field written by another call in between.
C5_UpdatesApplyWhole ==
    /\ \A t, u \in Threads : InLock(t) /\ InLock(u) => t = u
    /\ \A t \in Threads :
          tpc[t] = "update_unlock" =>
              jobs = UpdateJobStatus(tpre[t], targ[t].job_id, targ[t].status,
                                     targ[t].message, targ[t].filename)
\* One call has written all three fields of a job while another call, with
\* another status for the same job, waits for the lock.
C5_Witness ==
    \E t, u \in Threads :
        /\ tpc[t] = "update_unlock" /\ tpc[u] = "update_lock"
        /\ targ[t].job_id = targ[u].job_id /\ HasJob(jobs, targ[t].job_id)
        /\ targ[t].status # targ[u].status
        /\ TruthyMsg(targ[t].message) /\ TruthyStr(targ[t].filename)
        /\ TruthyMsg(targ[u].message) /\ ~TruthyStr(targ[u].filename)

\* C7: a submit with voice v stores exactly one new record, PENDING, under
\* an id no job had, with voice v in it; and a job's voice never changes.
C7_SubmitCreatesJob ==
    [][/\ \A t \in Threads :
             (tpc[t] = "upload_create" /\ tpc'[t] = "idle") =>
                 \E j \in DOMAIN jobs' \ DOMAIN jobs :
                     /\ DOMAIN jobs' = DOMAIN jobs \cup {j}
                     /\ jobs'[j].status = PENDING
                     /\ jobs'[j].voice = targ[t].voice
       /\ \A j \in DOMAIN jobs : j \in DOMAIN jobs' /\ jobs'[j].voice = jobs[j].voice]_vars

\* C8: an update writes only what it was given, of the job it names: when
\* the call has made its writes an omitted message or filename is what it
\* was, every other job's record is what it was, no record was added, an
\* unknown id left the registry as it was; and the call raised nothing.
C8_UpdateFrame ==
    \A t \in Threads :
        /\ tpc[t] = "update_unlock" =>
              LET j == targ[t].job_id
              IN /\ DOMAIN jobs = DOMAIN tpre[t]
                 /\ \A k \in DOMAIN jobs \ {j} : jobs[k] = tpre[t][k]
                 /\ HasJob(tpre[t], j) =>
                       /\ jobs[j].voice = tpre[t][j].voice
                       /\ jobs[j].status = targ[t].status
                       /\ (targ[t].message = NoneMsg => jobs[j].message = tpre[t][j].message)
                       /\ (targ[t].filename = None => jobs[j].filename = tpre[t][j].filename)
        /\ (InUpdate(t) \/ tpc[t] = "update_lock") => tret[t] = None
\* An update that gave only a status has changed the status of a job whose
\* message and filename an earlier update had set, beside another job.
C8_Witness ==
    \E t \in Threads :
        /\ tpc[t] = "update_unlock" /\ HasJob(jobs, targ[t].job_id)
        /\ targ[t].message = NoneMsg /\ targ[t].filename = None
        /\ jobs[targ[t].job_id].status # tpre[t][targ[t].job_id].status
        /\ jobs[targ[t].job_id].message # NewJob.message
        /\ jobs[targ[t].job_id].filename # None
        /\ DOMAIN jobs = JobIds

\* ---------------------------------------------------- SpecSingleton
\* Threads that construct the registry and call it, in any interleaving. A
\* thread calls a method only on an object a JobManager() call returned to it.
InitSingleton ==
    /\ jobs = <<>>
    /\ files = {}
    /\ pc = "start"
    /\ total_chunks = 0
    /\ cpc = <<>>
    /\ attempt = <<>>
    /\ sem_value = SemaphoreSize
    /\ waiters = <<>>
    /\ completed_chunks = 0
    /\ assembled = <<>>
    /\ errors = <<>>
    /\ manifest = <<>>
    /\ mux = "none"
    /\ scheduled = {}
    /\ written = {}
    /\ remove_failed = {}
    /\ out_of_order = FALSE
    /\ retried = "none"
    /\ gather_msg = NoneMsg
    /\ RegIdle
    /\ JobsIdle
    /\ Unconstructed

NextSingleton ==
    \E t \in Threads :
        \/ NewCall(t)
        \/ NewCheck(t)
        \/ NewEnter(t)
        \/ NewCheck2(t)
        \/ NewAlloc(t)
        \/ NewInit(t)
        \/ NewUnlock(t)
        \/ NewReturn(t)
        \/ job_manager[t] # NoInstance /\ \E j \in JobIds : CreateCall(t, j)
        \/ CreateEnter(t)
        \/ CreateWrite(t)
        \/ job_manager[t] # NoInstance /\ \E j \in {RunJob, UnknownJob} : GetCall(t, j)
        \/ GetEnter(t)
        \/ GetReturn(t)
        \/ job_manager[t] # NoInstance /\ \E j \in {RunJob, UnknownJob} :
              UpdateCall(t, j, PROCESSING, Text("Parsing PDF..."), None)
        \/ UpdateEnter(t)
        \/ UpdateStatus(t)
        \/ UpdateMessage(t)
        \/ UpdateFilename(t)
        \/ UpdateReturn(t)

SpecSingleton == InitSingleton /\ [][NextSingleton]_vars

\* ------------------------------------------- claims on SpecSingleton
\* A thread inside the with block of create_job, get_job or update_job_status,
\* where self._jobs is read.
InMethod(t) ==
    tpc[t] \in {"create_write", "get_read", "update_status", "update_message",
                "update_filename", "update_unlock"}

\* C22: every step of concurrent JobManager() calls and registry calls leaves
\* one registry object at most, which every caller that got one holds; a set
\* class attribute is never replaced; the job map is set once, on that
\* object, and no record stored in it is ever lost; and a thread inside
\* create_job, get_job or update_job_status works on an object whose job map
\* is set.
C22_OneRegistryInitialisedOnce ==
    [][/\ objects' <= 1
       /\ \A t \in Threads : job_manager'[t] \in {NoInstance, cls_instance'}
       /\ (cls_instance # NoInstance => cls_instance' = cls_instance)
       /\ has_jobs \subseteq has_jobs'
       /\ (has_jobs' # has_jobs => has_jobs = {} /\ has_jobs' = {cls_instance'})
       /\ DOMAIN jobs \subseteq DOMAIN jobs'
       /\ \A t \in Threads : InMethod(t)' => job_manager'[t] \in has_jobs']_vars
\* One thread stands between lines 14 and 15 while the other, which got the
\* object from the unlocked check, waits for the lock inside a method.
C22_Witness ==
    \E a, b \in Threads :
        /\ tpc[a] = "new_init"
        /\ job_manager[b] = cls_instance
        /\ job_manager[b] \notin has_jobs
        /\ tpc[b] \in {"create_lock", "get_lock", "update_lock"}

====
